---- MODULE Spec2Model ----
(***************************************************************************)
(* Model of the ipfs-lab tools.                                            *)
(*                                                                         *)
(*  - scripts/simulator.py : IPFSSimulator, the workload generator.  K     *)
(*    asyncio tasks sleep until their start offset, pick an operation and  *)
(*    run it against the storage API, sharing the list uploaded_files and  *)
(*    the workload log.  Specification: Spec.                              *)
(*  - scripts/topology.py : IPFSTopologyManager, the topology constructor  *)
(*    and verifier.  SpecTopology is a call of one constructor on a        *)
(*    manager; SpecMain is the command-line tool (main), run against a     *)
(*    small cluster and followed by matrix-only runs of the tool.          *)
(***************************************************************************)
EXTENDS Integers, Sequences, FiniteSets, TLC

(***************************************************************************)
(* Bounds of the model.  Time is counted in ticks of the event-loop clock  *)
(* and file sizes in units of max_size.                                    *)
(***************************************************************************)
\* largest num_operations (K) of a run
MaxOps == 2
\* the configured per-request timeout (self.timeout), in clock ticks
Timeout == 1
\* last instant of the event-loop clock
MaxTime == 2

\* largest number of nodes (--nodes) of a ring or grid construction
MaxNodes == 9
\* largest number of nodes of a full-mesh construction
MaxFullNodes == 4
\* largest number of nodes of a preferential-attachment construction called
\* on its own, and the largest m it is called with
MaxAttachNodes == 3
MaxM == 2
\* largest number of nodes (--nodes) of a run of the command-line tool
MaxMainNodes == 3
\* largest number of consecutive runs of the command-line tool
MaxRuns == 2

\* m=2, the default of create_barabasi_albert_topology, which main relies on
DefaultM == 2

\* max_size, the clip applied to the file-size sample (the unit of size)
max_size == 1

\* the values of int(np.random.exponential(mean_size)), in units of max_size
SizeSamples == {0, 1, 2}

\* the indices of self.nodes.  The index is formatted into the request URL
\* and the row and decides nothing else.
NodeSlots == {0}

\* content identifiers the storage API can return in result['Hash']
CIDs == {"QmA", "QmB"}

Min(a, b) == IF a < b THEN a ELSE b

VARIABLES
    K,               \* num_operations of this run
    run,             \* position of run_simulation
    created,         \* number of tasks created by the scheduling loop
    tasks,           \* the tasks: a sequence of records, one per created task
    uploaded_files,  \* the shared list of uploaded content identifiers
    log,             \* the workload log file: header row, then operation rows
    storageCalls,    \* number of requests issued to the storage API
    now              \* the event-loop clock

simVars == <<K, run, created, tasks, uploaded_files, log, storageCalls, now>>

VARIABLES
    topology,        \* args.topology, the kind of topology to construct
    num_nodes,       \* len(self.urls), the number of nodes
    tpc,             \* position of the topology constructor
    i,               \* the outer loop variable of the constructor
    j,               \* the inner loop variable of the constructor
    attempts,        \* the calls of connect_nodes so far, with their results
    lastCalls        \* the requests made by the latest call of connect_nodes

VARIABLES
    matrix_flag,     \* args.matrix
    m,               \* the parameter m of create_barabasi_albert_topology
    connected,       \* the set connected of create_barabasi_albert_topology
    selected,        \* the list selected of create_barabasi_albert_topology
    ids,             \* the cluster: what each node answers to /id
    peers,           \* the cluster: what each node answers to /swarm/peers
    tlog,            \* the execution log file (topology.csv); <<>> when absent
    matrix,          \* the matrix of read_connection_matrix
    runs,            \* the number of runs of the tool so far
    prevMatrix       \* the matrix printed by the previous run of the tool

mainVars == <<matrix_flag, m, connected, selected, ids, tlog, matrix, runs, prevMatrix>>

topoVars == <<topology, num_nodes, tpc, i, j, attempts, lastCalls, peers, mainVars>>

vars == <<simVars, topoVars>>

(***************************************************************************)
(* The workload log.                                                       *)
(***************************************************************************)
\* variant of InitLog: the file is created without its header row
InitLogNoHeader == <<>>

\* the header row of simulation_log.csv
Header == <<"timestamp", "node", "action", "file_size", "cid", "duration", "success">>

\* _init_log_file: the file is truncated and the header row written
InitLog == <<Header>>

\* _log_action: one row appended to the file.  start_time is the wall-clock
\* datetime.now() of the request; its value is not modelled.
LogAction(file, node, action, file_size, cid, duration, success, start_time) ==
    Append(file, [timestamp |-> "start_time", node |-> node, action |-> action,
                  file_size |-> file_size, cid |-> cid, duration |-> duration,
                  success |-> success])

\* the operation rows of a log file (everything after the header)
Rows(file) == SubSeq(file, 2, Len(file))

(***************************************************************************)
(* run_operation: the choice of the operation.                             *)
(***************************************************************************)
\* random.randint(0, len(uploaded_files) + 1): both ends inclusive
OpSlots(files) == 0 .. (Len(files) + 1)

\* if op >= len(uploaded_files): upload, else download
IsUploadSlot(op, files) == op >= Len(files)

\* cid = uploaded_files[op]  (Python lists are 0-based)
ChosenCid(files, op) == files[op + 1]

Tasks == 1 .. created

SetTask(t, r) == [tasks EXCEPT ![t] = r]

\* a task record: its position and the locals of its coroutine
NewTask == [pc |-> "sleeping", op |-> -1, node |-> -1,
            file_size |-> -1, cid |-> "none", start |-> -1]

\* a coroutine that has ended keeps none of its locals
Ended(pc) == [pc |-> pc, op |-> -1, node |-> -1,
              file_size |-> -1, cid |-> "none", start |-> -1]

(***************************************************************************)
(* State after construction of the simulator and entry of run_simulation.  *)
(***************************************************************************)
InitSim ==
    /\ K \in 0 .. MaxOps
    /\ run = "scheduling"
    /\ created = 0
    /\ tasks = <<>>
    /\ uploaded_files = <<>>
    /\ log = InitLog
    /\ storageCalls = 0
    /\ now = 0

\* the simulator is not running
SimOff ==
    /\ K = 0
    /\ run = "off"
    /\ created = 0
    /\ tasks = <<>>
    /\ uploaded_files = <<>>
    /\ log = <<>>
    /\ storageCalls = 0
    /\ now = 0

(***************************************************************************)
(* run_simulation: the scheduling loop creates one task per operation.     *)
(***************************************************************************)
CreateTask ==
    /\ run = "scheduling"
    /\ created < K
    /\ tasks' = Append(tasks, NewTask)
    /\ created' = created + 1
    /\ UNCHANGED <<K, run, uploaded_files, log, storageCalls, now, topoVars>>

\* await asyncio.gather(*operations): the tasks start running only now
StartGather ==
    /\ run = "scheduling"
    /\ created = K
    /\ run' = "gathering"
    /\ UNCHANGED <<K, created, tasks, uploaded_files, log, storageCalls, now, topoVars>>

(***************************************************************************)
(* _delayed_operation and run_operation: a task wakes up when its offset   *)
(* has elapsed, picks its operation and node and issues the request.       *)
(***************************************************************************)
\* delay += np.random.exponential(mean_delay): the start offsets increase
\* with the task index, so a task's sleep ends after those of the tasks
\* created before it
OffsetElapsed(t) == \A u \in 1 .. (t - 1) : tasks[u].pc # "sleeping"

\* variant of RunOperation: the operation is decided from the shared list as
\* it stood when the schedule was built, that is, empty
RunOperationAtSchedule(t) ==
    /\ run = "gathering"
    /\ tasks[t].pc = "sleeping"
    /\ OffsetElapsed(t)
    /\ \E op \in OpSlots(<<>>), node \in NodeSlots, size \in SizeSamples :
         tasks' = SetTask(t, [tasks[t] EXCEPT !.pc = "uploading", !.op = op,
                                 !.node = node,
                                 !.file_size = Min(size, max_size),
                                 !.start = now])
    /\ storageCalls' = storageCalls + 1
    /\ UNCHANGED <<K, run, created, uploaded_files, log, now, topoVars>>

RunOperation(t) ==
    /\ run = "gathering"
    /\ tasks[t].pc = "sleeping"
    /\ OffsetElapsed(t)
    /\ \E op \in OpSlots(uploaded_files), node \in NodeSlots :
         IF IsUploadSlot(op, uploaded_files)
         THEN \E size \in SizeSamples :
                tasks' = SetTask(t, [tasks[t] EXCEPT !.pc = "uploading", !.op = op,
                                        !.node = node,
                                        !.file_size = Min(size, max_size),
                                        !.start = now])
         ELSE tasks' = SetTask(t, [tasks[t] EXCEPT !.pc = "downloading", !.op = op,
                                        !.node = node,
                                        !.cid = ChosenCid(uploaded_files, op),
                                        !.start = now])
    /\ storageCalls' = storageCalls + 1
    /\ UNCHANGED <<K, run, created, uploaded_files, log, now, topoVars>>

(***************************************************************************)
(* upload_file                                                             *)
(***************************************************************************)
\* variant of TimedOut: the timer fires one tick early
TimedOutEarly(t) == now - tasks[t].start >= Timeout - 1

\* the request's timeout has expired
TimedOut(t) == now - tasks[t].start >= Timeout

\* variant of UploadRespond: the identifier is published to the shared list
\* at once and the row is never written
UploadRespondUnlogged(t) ==
    /\ tasks[t].pc = "uploading"
    /\ \E c \in CIDs :
         /\ uploaded_files' = Append(uploaded_files, c)
         /\ tasks' = SetTask(t, Ended("done"))
    /\ UNCHANGED <<K, run, created, log, storageCalls, now, topoVars>>

\* the response arrives with status 2xx and a Hash: the row is logged and
\* the identifier returned
UploadRespond(t) ==
    /\ tasks[t].pc = "uploading"
    /\ \E c \in CIDs :
         /\ log' = LogAction(log, tasks[t].node, "upload", tasks[t].file_size, c,
                             now - tasks[t].start, TRUE, tasks[t].start)
         /\ tasks' = SetTask(t, [tasks[t] EXCEPT !.pc = "uploaded", !.cid = c])
    /\ UNCHANGED <<K, run, created, uploaded_files, storageCalls, now, topoVars>>

\* run_operation after upload_file returned an identifier: appended
UploadAppend(t) ==
    /\ tasks[t].pc = "uploaded"
    /\ uploaded_files' = Append(uploaded_files, tasks[t].cid)
    /\ tasks' = SetTask(t, Ended("done"))
    /\ UNCHANGED <<K, run, created, log, storageCalls, now, topoVars>>

\* variant of UploadTimeout: the placeholder "error" is returned instead of
\* None, so that run_operation appends it
UploadTimeoutAppends(t) ==
    /\ tasks[t].pc = "uploading"
    /\ TimedOut(t)
    /\ log' = LogAction(log, tasks[t].node, "upload", tasks[t].file_size, "error",
                        now - tasks[t].start, FALSE, tasks[t].start)
    /\ uploaded_files' = Append(uploaded_files, "error")
    /\ tasks' = SetTask(t, Ended("done"))
    /\ UNCHANGED <<K, run, created, storageCalls, now, topoVars>>

\* except TimeoutError: a failed row with cid "error"; None is returned
UploadTimeout(t) ==
    /\ tasks[t].pc = "uploading"
    /\ TimedOut(t)
    /\ log' = LogAction(log, tasks[t].node, "upload", tasks[t].file_size, "error",
                        now - tasks[t].start, FALSE, tasks[t].start)
    /\ tasks' = SetTask(t, Ended("done"))
    /\ UNCHANGED <<K, run, created, uploaded_files, storageCalls, now, topoVars>>

\* raise_for_status() (or the connection, or result['Hash']) raises another
\* exception: nothing catches it, the task ends with the exception
UploadError(t) ==
    /\ tasks[t].pc = "uploading"
    /\ tasks' = SetTask(t, Ended("failed"))
    /\ UNCHANGED <<K, run, created, uploaded_files, log, storageCalls, now, topoVars>>

(***************************************************************************)
(* download_file                                                           *)
(***************************************************************************)
\* variant of DownloadRespond: the downloaded identifier is appended again
DownloadRespondAppends(t) ==
    /\ tasks[t].pc = "downloading"
    /\ \E length \in 0 .. max_size :
         /\ log' = LogAction(log, tasks[t].node, "download", length, tasks[t].cid,
                             now - tasks[t].start, TRUE, tasks[t].start)
         /\ tasks' = SetTask(t, Ended("done"))
    /\ uploaded_files' = Append(uploaded_files, tasks[t].cid)
    /\ UNCHANGED <<K, run, created, storageCalls, now, topoVars>>

\* the response arrives with status 2xx: the row is logged with the length
\* of the content
DownloadRespond(t) ==
    /\ tasks[t].pc = "downloading"
    /\ \E length \in 0 .. max_size :
         /\ log' = LogAction(log, tasks[t].node, "download", length, tasks[t].cid,
                             now - tasks[t].start, TRUE, tasks[t].start)
         /\ tasks' = SetTask(t, Ended("done"))
    /\ UNCHANGED <<K, run, created, uploaded_files, storageCalls, now, topoVars>>

\* except TimeoutError: a failed row with file size 0
DownloadTimeout(t) ==
    /\ tasks[t].pc = "downloading"
    /\ TimedOut(t)
    /\ log' = LogAction(log, tasks[t].node, "download", 0, tasks[t].cid,
                        now - tasks[t].start, FALSE, tasks[t].start)
    /\ tasks' = SetTask(t, Ended("done"))
    /\ UNCHANGED <<K, run, created, uploaded_files, storageCalls, now, topoVars>>

\* any other exception ends the task
DownloadError(t) ==
    /\ tasks[t].pc = "downloading"
    /\ tasks' = SetTask(t, Ended("failed"))
    /\ UNCHANGED <<K, run, created, uploaded_files, log, storageCalls, now, topoVars>>

(***************************************************************************)
(* asyncio.gather and the end of run_simulation                            *)
(***************************************************************************)
Finished(t) == tasks[t].pc \in {"done", "failed"}

\* every task has returned: gather returns and run_simulation with it
GatherReturn ==
    /\ run = "gathering"
    /\ \A t \in Tasks : tasks[t].pc = "done"
    /\ run' = "returned"
    /\ UNCHANGED <<K, created, tasks, uploaded_files, log, storageCalls, now, topoVars>>

\* a task ended with an exception: gather (return_exceptions=False) raises
\* it at once, run_simulation and main end with it, and asyncio.run cancels
\* the tasks that are still pending
GatherRaise ==
    /\ run = "gathering"
    /\ \E t \in Tasks : tasks[t].pc = "failed"
    /\ run' = "raised"
    /\ tasks' = [t \in Tasks |->
                    IF Finished(t) THEN tasks[t]
                    ELSE Ended("cancelled")]
    /\ UNCHANGED <<K, created, uploaded_files, log, storageCalls, now, topoVars>>

\* the event-loop clock advances
Tick ==
    /\ now < MaxTime
    /\ now' = now + 1
    /\ UNCHANGED <<K, run, created, tasks, uploaded_files, log, storageCalls, topoVars>>

TaskStep(t) ==
    /\ run = "gathering"
    /\ \/ RunOperation(t)
       \/ UploadRespond(t)
       \/ UploadAppend(t)
       \/ UploadTimeout(t)
       \/ UploadError(t)
       \/ DownloadRespond(t)
       \/ DownloadTimeout(t)
       \/ DownloadError(t)

(***************************************************************************)
(* scripts/topology.py: connect_nodes                                      *)
(***************************************************************************)
\* the ways a call of connect_nodes can go: the target's address does not
\* resolve; its identity is not available; the connect request raises; the
\* request is answered with a status other than 200; it is answered 200
ConnectOutcomes == {"no_address", "no_identity", "exception", "refused", "connected"}

\* variant of ConnectCalls: the connect request is issued whatever the
\* address resolution and the identity fetch returned
ConnectCallsDialsAnyway(source_index, target_index, outcome) ==
    <<[call |-> "resolve", node |-> target_index]>>
    \o (IF outcome = "no_address" THEN <<>>
        ELSE <<[call |-> "id", node |-> target_index]>>)
    \o <<[call |-> "connect", node |-> source_index, peer |-> target_index]>>

\* the requests connect_nodes makes, in order, for an outcome
ConnectCalls(source_index, target_index, outcome) ==
    <<[call |-> "resolve", node |-> target_index]>>
    \o (IF outcome = "no_address" THEN <<>>
        ELSE <<[call |-> "id", node |-> target_index]>>)
    \o (IF outcome \in {"no_address", "no_identity"} THEN <<>>
        ELSE <<[call |-> "connect", node |-> source_index, peer |-> target_index]>>)

\* the value connect_nodes returns
ConnectResult(outcome) == outcome = "connected"

\* a call of connect_nodes, as the constructors record it
Attempt(source_index, target_index, outcome) ==
    [source |-> source_index, target |-> target_index, ok |-> ConnectResult(outcome)]

\* the pair (source, target) of an attempt
Edge(a) == <<a.source, a.target>>

(***************************************************************************)
(* The cluster, as the control API of its nodes shows it                   *)
(***************************************************************************)
\* the identity a healthy node n reports in response.json()['ID']
Identity(n) == <<"id", n>>

\* None: get_node_id failed, or a peer session has no "Peer" entry
NoIdentity == <<"none">>

\* the identity of a peer that is not a node of the cluster
Elsewhere == <<"elsewhere">>

\* a peer session of /swarm/peers: its "Peer" entry and whether one of its
\* "Streams" has the "Protocol" /ipfs/lan/kad/1.0.0
Session(peer_id, kad) == [Peer |-> peer_id, kad |-> kad]

\* every node reports its own identity
NodeIds(n) == [k \in 0 .. (n - 1) |-> Identity(k)]

\* the identities of a cluster of n nodes: at most one node does not answer
\* /id, or reports the identity of node 0
IdentityChoices(n) ==
    {NodeIds(n)}
    \cup {[NodeIds(n) EXCEPT ![d] = v] : d \in 0 .. (n - 1), v \in {NoIdentity, Identity(0)}}

\* every node answers /swarm/peers with status 200 and no peers
NoPeers(n) == [k \in 0 .. (n - 1) |-> [reply |-> "ok", Peers |-> {}]]

\* the sessions a node can have before the tool runs
Sessions == {Session(p, k) : p \in {Identity(0), Elsewhere, NoIdentity}, k \in BOOLEAN}

\* the peer lists of a cluster of n nodes before the tool runs: at most one
\* node has a session, or answers with another status, or not at all
PeerChoices(n) ==
    {NoPeers(n)}
    \cup {[NoPeers(n) EXCEPT ![d] = [reply |-> r, Peers |-> {}]] :
             d \in 0 .. (n - 1), r \in {"refused", "exception"}}
    \cup {[NoPeers(n) EXCEPT ![d] = [reply |-> "ok", Peers |-> {s}]] :
             d \in 0 .. (n - 1), s \in Sessions}

\* get_node_id(index): None when the request fails; an index outside the
\* cluster has no identity
GetNodeId(index) == IF index \in DOMAIN ids THEN ids[index] ELSE NoIdentity

\* the outcomes connect_nodes can have for a target: without an identity of
\* the target it returns before the connect request, and an index outside
\* self.names raises before any request
OutcomesFor(target_index) ==
    IF target_index \notin DOMAIN ids THEN {"no_address"}
    ELSE IF GetNodeId(target_index) = NoIdentity THEN {"no_address", "no_identity"}
    ELSE ConnectOutcomes

\* the peer lists after connect_nodes: a connect request answered with 200
\* has opened a session from the source to the target's identity
SwarmConnect(ps, source_index, target_index, outcome) ==
    IF outcome = "connected"
    THEN [ps EXCEPT ![source_index].Peers = @ \cup {Session(GetNodeId(target_index), TRUE)}]
    ELSE ps

(***************************************************************************)
(* State when a constructor is called by main                              *)
(***************************************************************************)
InitTopology ==
    /\ topology \in {"ring", "grid", "full", "barabasi"}
    /\ num_nodes \in 0 .. (CASE topology = "full" -> MaxFullNodes
                             [] topology = "barabasi" -> MaxAttachNodes
                             [] OTHER -> MaxNodes)
    /\ m \in (IF topology = "barabasi" THEN 0 .. MaxM ELSE {DefaultM})
    /\ tpc = "start"
    /\ i = 0
    /\ j = 0
    /\ attempts = <<>>
    /\ lastCalls = <<>>
    /\ matrix_flag = FALSE
    /\ connected = {}
    /\ selected = <<>>
    /\ ids = NodeIds(num_nodes)
    /\ peers = NoPeers(num_nodes)
    /\ tlog = <<>>
    /\ matrix = <<>>
    /\ runs = 1
    /\ prevMatrix = <<>>

\* the topology tool is not running
TopologyOff ==
    /\ topology = "none"
    /\ num_nodes = 0
    /\ tpc = "off"
    /\ i = 0
    /\ j = 0
    /\ attempts = <<>>
    /\ lastCalls = <<>>
    /\ matrix_flag = FALSE
    /\ m = DefaultM
    /\ connected = {}
    /\ selected = <<>>
    /\ ids = <<>>
    /\ peers = <<>>
    /\ tlog = <<>>
    /\ matrix = <<>>
    /\ runs = 0
    /\ prevMatrix = <<>>

(***************************************************************************)
(* create_ring_topology                                                    *)
(***************************************************************************)
\* variant of NextNode: the last node is not wrapped around to node 0
NextNodeNoWrap(k, n) == k + 1

\* next_node = (i + 1) % len(self.urls)
NextNode(k, n) == (k + 1) % n

RingStart ==
    /\ tpc = "start"
    /\ topology = "ring"
    /\ tpc' = "loop"
    /\ i' = 0
    /\ UNCHANGED <<topology, num_nodes, j, attempts, lastCalls, peers, mainVars, simVars>>

\* one iteration of: for i in range(len(self.urls))
RingStep ==
    /\ tpc = "loop"
    /\ topology = "ring"
    /\ i < num_nodes
    /\ \E outcome \in OutcomesFor(NextNode(i, num_nodes)) :
         /\ attempts' = Append(attempts, Attempt(i, NextNode(i, num_nodes), outcome))
         /\ lastCalls' = ConnectCalls(i, NextNode(i, num_nodes), outcome)
         /\ peers' = SwarmConnect(peers, i, NextNode(i, num_nodes), outcome)
    /\ i' = i + 1
    /\ UNCHANGED <<topology, num_nodes, tpc, j, mainVars, simVars>>

RingDone ==
    /\ tpc = "loop"
    /\ topology = "ring"
    /\ i = num_nodes
    /\ tpc' = "constructed"
    /\ UNCHANGED <<topology, num_nodes, i, j, attempts, lastCalls, peers, mainVars, simVars>>

(***************************************************************************)
(* create_grid_topology                                                    *)
(***************************************************************************)
\* int(n ** 0.5)
ISqrt(n) == CHOOSE s \in 0 .. n : s * s <= n /\ (s + 1) * (s + 1) > n

\* size = int(len(self.urls) ** 0.5)
GridSize == ISqrt(num_nodes)

\* variant of HasRight: the last cell of a row also connects to index + 1
HasRightWraps(col, size) == col < size

\* if j < size - 1
HasRight(col, size) == col < size - 1

\* variant of HasDown: the cells of the last row also connect downwards
HasDownWraps(row, size) == row < size

\* if i < size - 1
HasDown(row, size) == row < size - 1

\* variant of GridStart: the number of nodes is not checked
GridStartUnchecked ==
    /\ tpc = "start"
    /\ topology = "grid"
    /\ tpc' = "loop"
    /\ i' = 0
    /\ j' = 0
    /\ UNCHANGED <<topology, num_nodes, attempts, lastCalls, peers, mainVars, simVars>>

\* if size * size != len(self.urls): raise ValueError
GridStart ==
    /\ tpc = "start"
    /\ topology = "grid"
    /\ tpc' = IF GridSize * GridSize # num_nodes THEN "raised" ELSE "loop"
    /\ i' = 0
    /\ j' = 0
    /\ UNCHANGED <<topology, num_nodes, attempts, lastCalls, peers, mainVars, simVars>>

\* the attempts of cell (row, col) for the outcomes right and down
CellAttempts(row, col, size, right, down) ==
    (IF HasRight(col, size)
     THEN <<Attempt(row * size + col, row * size + col + 1, right)>> ELSE <<>>)
    \o (IF HasDown(row, size)
        THEN <<Attempt(row * size + col, row * size + col + size, down)>> ELSE <<>>)

\* the requests of the last call of connect_nodes made for cell (row, col)
CellCalls(row, col, size, right, down) ==
    IF HasDown(row, size)
    THEN ConnectCalls(row * size + col, row * size + col + size, down)
    ELSE IF HasRight(col, size)
         THEN ConnectCalls(row * size + col, row * size + col + 1, right)
         ELSE lastCalls

\* one iteration of: for j in range(size)
GridStep ==
    /\ tpc = "loop"
    /\ topology = "grid"
    /\ i < GridSize
    /\ j < GridSize
    /\ \E right \in (IF HasRight(j, GridSize)
                     THEN OutcomesFor(i * GridSize + j + 1) ELSE {"none"}),
          down \in (IF HasDown(i, GridSize)
                    THEN OutcomesFor(i * GridSize + j + GridSize) ELSE {"none"}) :
         /\ attempts' = attempts \o CellAttempts(i, j, GridSize, right, down)
         /\ lastCalls' = CellCalls(i, j, GridSize, right, down)
         /\ peers' = SwarmConnect(SwarmConnect(peers, i * GridSize + j,
                                                i * GridSize + j + 1, right),
                                   i * GridSize + j, i * GridSize + j + GridSize, down)
    /\ j' = j + 1
    /\ UNCHANGED <<topology, num_nodes, tpc, i, mainVars, simVars>>

\* the inner loop is exhausted: next iteration of: for i in range(size)
GridNextRow ==
    /\ tpc = "loop"
    /\ topology = "grid"
    /\ i < GridSize
    /\ j = GridSize
    /\ i' = i + 1
    /\ j' = 0
    /\ UNCHANGED <<topology, num_nodes, tpc, attempts, lastCalls, peers, mainVars, simVars>>

GridDone ==
    /\ tpc = "loop"
    /\ topology = "grid"
    /\ i = GridSize
    /\ tpc' = "constructed"
    /\ UNCHANGED <<topology, num_nodes, i, j, attempts, lastCalls, peers, mainVars, simVars>>

(***************************************************************************)
(* create_fully_connected_topology                                         *)
(***************************************************************************)
FullStart ==
    /\ tpc = "start"
    /\ topology = "full"
    /\ tpc' = "loop"
    /\ i' = 0
    /\ j' = 1
    /\ UNCHANGED <<topology, num_nodes, attempts, lastCalls, peers, mainVars, simVars>>

\* one iteration of: for j in range(i + 1, len(self.urls))
FullStep ==
    /\ tpc = "loop"
    /\ topology = "full"
    /\ i < num_nodes
    /\ j < num_nodes
    /\ \E outcome \in OutcomesFor(j) :
         /\ attempts' = Append(attempts, Attempt(i, j, outcome))
         /\ lastCalls' = ConnectCalls(i, j, outcome)
         /\ peers' = SwarmConnect(peers, i, j, outcome)
    /\ j' = j + 1
    /\ UNCHANGED <<topology, num_nodes, tpc, i, mainVars, simVars>>

\* variant of FullNextRow: the inner loop starts at i instead of i + 1
FullNextRowFromSelf ==
    /\ tpc = "loop"
    /\ topology = "full"
    /\ i < num_nodes
    /\ j >= num_nodes
    /\ i' = i + 1
    /\ j' = i + 1
    /\ UNCHANGED <<topology, num_nodes, tpc, attempts, lastCalls, peers, mainVars, simVars>>

\* the inner loop is exhausted: next iteration of: for i in range(len(self.urls))
FullNextRow ==
    /\ tpc = "loop"
    /\ topology = "full"
    /\ i < num_nodes
    /\ j >= num_nodes
    /\ i' = i + 1
    /\ j' = i + 2
    /\ UNCHANGED <<topology, num_nodes, tpc, attempts, lastCalls, peers, mainVars, simVars>>

FullDone ==
    /\ tpc = "loop"
    /\ topology = "full"
    /\ i = num_nodes
    /\ tpc' = "constructed"
    /\ UNCHANGED <<topology, num_nodes, i, j, attempts, lastCalls, peers, mainVars, simVars>>

(***************************************************************************)
(* create_barabasi_albert_topology                                         *)
(***************************************************************************)
\* random.choices(targets, probabilities, k=count): a list of count elements
\* of targets, each drawn independently of the others
Choices(targets, count) == [1 .. count -> targets]

\* if m < 1 or m >= len(self.urls): raise ValueError; connected = {0}
BarabasiStart ==
    /\ tpc = "start"
    /\ topology = "barabasi"
    /\ IF m < 1 \/ m >= num_nodes
       THEN /\ tpc' = "raised"
            /\ UNCHANGED <<i, connected>>
       ELSE /\ tpc' = "loop"
            /\ i' = 1
            /\ connected' = {0}
    /\ UNCHANGED <<topology, num_nodes, j, attempts, lastCalls, peers, matrix_flag, m,
                   selected, ids, tlog, matrix, runs, prevMatrix, simVars>>

\* variant of BarabasiSelect: the targets are drawn from all earlier nodes
BarabasiSelectEarlier ==
    /\ tpc = "loop"
    /\ topology = "barabasi"
    /\ i < num_nodes
    /\ selected' \in Choices(0 .. (i - 1), Min(m, i))
    /\ j' = 0
    /\ tpc' = "connecting"
    /\ UNCHANGED <<topology, num_nodes, i, attempts, lastCalls, peers, matrix_flag, m,
                   connected, ids, tlog, matrix, runs, prevMatrix, simVars>>

\* one iteration of: for new_node_index in range(1, len(self.urls)), up to
\* the choice of selected
BarabasiSelect ==
    /\ tpc = "loop"
    /\ topology = "barabasi"
    /\ i < num_nodes
    /\ selected' \in Choices(connected, Min(m, Cardinality(connected)))
    /\ j' = 0
    /\ tpc' = "connecting"
    /\ UNCHANGED <<topology, num_nodes, i, attempts, lastCalls, peers, matrix_flag, m,
                   connected, ids, tlog, matrix, runs, prevMatrix, simVars>>

\* variant of BarabasiConnect: the new node joins the connected set whatever
\* connect_nodes returns
BarabasiConnectAlwaysAdds ==
    /\ tpc = "connecting"
    /\ j < Len(selected)
    /\ \E outcome \in OutcomesFor(selected[j + 1]) :
         /\ attempts' = Append(attempts, Attempt(i, selected[j + 1], outcome))
         /\ lastCalls' = ConnectCalls(i, selected[j + 1], outcome)
         /\ peers' = SwarmConnect(peers, i, selected[j + 1], outcome)
         /\ connected' = connected \cup {i}
    /\ j' = j + 1
    /\ UNCHANGED <<topology, num_nodes, tpc, i, matrix_flag, m, selected, ids, tlog,
                   matrix, runs, prevMatrix, simVars>>

\* one iteration of: for target_index in selected
BarabasiConnect ==
    /\ tpc = "connecting"
    /\ j < Len(selected)
    /\ \E outcome \in OutcomesFor(selected[j + 1]) :
         /\ attempts' = Append(attempts, Attempt(i, selected[j + 1], outcome))
         /\ lastCalls' = ConnectCalls(i, selected[j + 1], outcome)
         /\ peers' = SwarmConnect(peers, i, selected[j + 1], outcome)
         /\ connected' = IF ConnectResult(outcome) THEN connected \cup {i} ELSE connected
    /\ j' = j + 1
    /\ UNCHANGED <<topology, num_nodes, tpc, i, matrix_flag, m, selected, ids, tlog,
                   matrix, runs, prevMatrix, simVars>>

\* the inner loop is exhausted: the next new_node_index
BarabasiNextNode ==
    /\ tpc = "connecting"
    /\ j = Len(selected)
    /\ i' = i + 1
    /\ tpc' = "loop"
    /\ UNCHANGED <<topology, num_nodes, j, attempts, lastCalls, peers, mainVars, simVars>>

BarabasiDone ==
    /\ tpc = "loop"
    /\ topology = "barabasi"
    /\ i >= num_nodes
    /\ tpc' = "constructed"
    /\ UNCHANGED <<topology, num_nodes, i, j, attempts, lastCalls, peers, mainVars, simVars>>

(***************************************************************************)
(* read_connection_matrix                                                  *)
(***************************************************************************)
\* matrix = [[0] * len(self.urls) for _ in range(len(self.urls))]
ZeroMatrix(n) == [a \in 0 .. (n - 1) |-> [b \in 0 .. (n - 1) |-> 0]]

\* kad_peers: the sessions of node n with a /ipfs/lan/kad/1.0.0 stream
KadPeers(n) == {s \in peers[n].Peers : s.kad}

\* row n of the matrix after the iteration for node n: entry b is set when
\* the request was answered with 200 and, for some peer of kad_peers,
\* self.get_node_id(b) == peer_id
MatrixRow(n) ==
    [b \in 0 .. (num_nodes - 1) |->
        IF /\ peers[n].reply = "ok"
           /\ \E s \in KadPeers(n) : GetNodeId(b) = s.Peer
        THEN 1 ELSE 0]

\* the requests of the iteration for node n: /swarm/peers of node n, then
\* /id of every node, once for each peer of kad_peers
ReadCalls(n) ==
    <<[call |-> "peers", node |-> n]>>
    \o (IF peers[n].reply = "ok"
        THEN [k \in 1 .. (Cardinality(KadPeers(n)) * num_nodes) |->
                 [call |-> "id", node |-> (k - 1) % num_nodes]]
        ELSE <<>>)

\* read_connection_matrix is called, in matrix mode or after a constructor
ReadStart ==
    /\ tpc \in {"verify", "constructed"}
    /\ matrix' = ZeroMatrix(num_nodes)
    /\ i' = 0
    /\ tpc' = "verifying"
    /\ UNCHANGED <<topology, num_nodes, j, attempts, lastCalls, peers, matrix_flag, m,
                   connected, selected, ids, tlog, runs, prevMatrix, simVars>>

\* variant of ReadNode: the verifier dials the peers it has resolved
ReadNodeDials ==
    /\ tpc = "verifying"
    /\ i < num_nodes
    /\ matrix' = [matrix EXCEPT ![i] = MatrixRow(i)]
    /\ lastCalls' = ReadCalls(i)
    /\ peers' = [peers EXCEPT ![i].Peers =
                    @ \cup {Session(Identity(b), TRUE) : b \in {c \in 0 .. (num_nodes - 1) :
                                                                  MatrixRow(i)[c] = 1}}]
    /\ i' = i + 1
    /\ UNCHANGED <<topology, num_nodes, tpc, j, attempts, matrix_flag, m,
                   connected, selected, ids, tlog, runs, prevMatrix, simVars>>

\* one iteration of: for i in range(len(self.urls))
ReadNode ==
    /\ tpc = "verifying"
    /\ i < num_nodes
    /\ matrix' = [matrix EXCEPT ![i] = MatrixRow(i)]
    /\ lastCalls' = ReadCalls(i)
    /\ i' = i + 1
    /\ UNCHANGED <<topology, num_nodes, tpc, j, attempts, peers, matrix_flag, m,
                   connected, selected, ids, tlog, runs, prevMatrix, simVars>>

\* the loop is exhausted: the matrix is printed
ReadDone ==
    /\ tpc = "verifying"
    /\ i = num_nodes
    /\ tpc' = "verified"
    /\ UNCHANGED <<topology, num_nodes, i, j, attempts, lastCalls, peers, mainVars, simVars>>

(***************************************************************************)
(* The execution log, IPFSTopologyManager.__init__ and main                *)
(***************************************************************************)
\* the header row of topology.csv
TopologyHeader == <<"timestamp", "action", "num_nodes", "status", "details">>

\* __init__: the file is truncated and the header row written when
\* reset_file is set or the file does not exist
ManagerInit(file, reset_file) ==
    IF reset_file \/ file = <<>> THEN <<TopologyHeader>> ELSE file

\* log_execution: one row is appended to the file
LogExecution(file, action, status, details) ==
    Append(file, [timestamp |-> "now", action |-> action, num_nodes |-> num_nodes,
                  status |-> status, details |-> details])

\* f'topology_{args.topology}'
TopologyAction ==
    CASE topology = "ring" -> "topology_ring"
      [] topology = "grid" -> "topology_grid"
      [] topology = "full" -> "topology_full"
      [] OTHER -> "topology_barabasi"

\* f'{type(e).__name__}: {str(e)}' of the error a constructor raises
RaisedError ==
    IF topology = "grid"
    THEN "ValueError: Number of nodes must be a perfect square for grid topology"
    ELSE "ValueError: Parameter 'm' must be >= 1 and less than the number of nodes"

\* the arguments of the first run of the tool and the cluster it finds
InitMain ==
    /\ topology \in {"none", "ring", "grid", "full", "barabasi"}
    /\ matrix_flag \in BOOLEAN
    /\ num_nodes \in 0 .. MaxMainNodes
    /\ m = DefaultM
    /\ ids \in IdentityChoices(num_nodes)
    /\ peers \in PeerChoices(num_nodes)
    /\ tlog = <<>>
    /\ tpc = "main"
    /\ i = 0
    /\ j = 0
    /\ attempts = <<>>
    /\ lastCalls = <<>>
    /\ connected = {}
    /\ selected = <<>>
    /\ matrix = <<>>
    /\ runs = 1
    /\ prevMatrix = <<>>

\* main up to the branch it takes: the manager is constructed with
\* reset_file = (args.topology is not None)
MainStart ==
    /\ tpc = "main"
    /\ tlog' = ManagerInit(tlog, topology # "none")
    /\ tpc' = IF matrix_flag THEN "verify"
              ELSE IF topology # "none" THEN "start" ELSE "no_action"
    /\ UNCHANGED <<topology, num_nodes, i, j, attempts, lastCalls, peers, matrix_flag, m,
                   connected, selected, ids, matrix, runs, prevMatrix, simVars>>

\* log_execution('matrix_read') or log_execution(f'topology_{args.topology}')
LogCompleted ==
    /\ tpc = "verified"
    /\ tlog' = LogExecution(tlog, IF matrix_flag THEN "matrix_read" ELSE TopologyAction,
                            "completed", "")
    /\ tpc' = "exit"
    /\ UNCHANGED <<topology, num_nodes, i, j, attempts, lastCalls, peers, matrix_flag, m,
                   connected, selected, ids, matrix, runs, prevMatrix, simVars>>

\* else: log_execution('invalid_args', 'error', 'No action specified')
LogInvalidArgs ==
    /\ tpc = "no_action"
    /\ tlog' = LogExecution(tlog, "invalid_args", "error", "No action specified")
    /\ tpc' = "exit"
    /\ UNCHANGED <<topology, num_nodes, i, j, attempts, lastCalls, peers, matrix_flag, m,
                   connected, selected, ids, matrix, runs, prevMatrix, simVars>>

\* except Exception as e: log_execution('error', 'failed', ...); raise
MainExcept ==
    /\ tpc = "raised"
    /\ tlog' = LogExecution(tlog, "error", "failed", RaisedError)
    /\ tpc' = "propagated"
    /\ UNCHANGED <<topology, num_nodes, i, j, attempts, lastCalls, peers, matrix_flag, m,
                   connected, selected, ids, matrix, runs, prevMatrix, simVars>>

\* the tool has ended and is run again on the same cluster and log file,
\* with the same arguments and --matrix
RunMatrix ==
    /\ tpc \in {"exit", "propagated"}
    /\ runs < MaxRuns
    /\ runs' = runs + 1
    /\ matrix_flag' = TRUE
    /\ prevMatrix' = matrix
    /\ matrix' = <<>>
    /\ tpc' = "main"
    /\ i' = 0
    /\ j' = 0
    /\ attempts' = <<>>
    /\ lastCalls' = <<>>
    /\ connected' = {}
    /\ selected' = <<>>
    /\ UNCHANGED <<topology, num_nodes, peers, m, ids, tlog, simVars>>

(***************************************************************************)
(* The specifications                                                      *)
(***************************************************************************)
Init == InitSim /\ TopologyOff

Next ==
    \/ CreateTask
    \/ StartGather
    \/ \E t \in Tasks : TaskStep(t)
    \/ GatherReturn
    \/ GatherRaise
    \/ Tick

Spec == Init /\ [][Next]_vars

InitTopo == InitTopology /\ SimOff

NextTopo ==
    \/ RingStart
    \/ RingStep
    \/ RingDone
    \/ GridStart
    \/ GridStep
    \/ GridNextRow
    \/ GridDone
    \/ FullStart
    \/ FullStep
    \/ FullNextRow
    \/ FullDone
    \/ BarabasiStart
    \/ BarabasiSelect
    \/ BarabasiConnect
    \/ BarabasiNextNode
    \/ BarabasiDone

SpecTopology == InitTopo /\ [][NextTopo]_vars

InitTool == InitMain /\ SimOff

NextMain ==
    \/ MainStart
    \/ RingStart
    \/ RingStep
    \/ RingDone
    \/ GridStart
    \/ GridStep
    \/ GridNextRow
    \/ GridDone
    \/ FullStart
    \/ FullStep
    \/ FullNextRow
    \/ FullDone
    \/ BarabasiStart
    \/ BarabasiSelect
    \/ BarabasiConnect
    \/ BarabasiNextNode
    \/ BarabasiDone
    \/ ReadStart
    \/ ReadNode
    \/ ReadDone
    \/ LogCompleted
    \/ LogInvalidArgs
    \/ MainExcept
    \/ RunMatrix

SpecMain == InitTool /\ [][NextMain]_vars

(***************************************************************************)
(* Properties of the workload generator                                    *)
(***************************************************************************)
\* a log row of a successful upload of identifier c
UploadRow(r, c) == r.action = "upload" /\ r.success /\ r.cid = c

\* the positions of the operation rows in a log file
RowIdx(file) == 2 .. Len(file)

\* task t picks its operation in this step
Selects(t) == tasks[t].pc = "sleeping" /\ tasks'[t].pc \in {"uploading", "downloading"}

\* s is a prefix of t
IsPrefix(s, t) == Len(s) <= Len(t) /\ SubSeq(t, 1, Len(s)) = s

\* C1: whenever a task picks a download, the index it drew lies inside the
\* shared list, the identifier it targets is the element at that index, and
\* a successful upload row with that identifier is already in the log.
C1_DownloadTargetsLoggedUpload ==
    [][\A t \in Tasks :
          (tasks[t].pc = "sleeping" /\ tasks'[t].pc = "downloading") =>
              /\ tasks'[t].op \in 0 .. (Len(uploaded_files) - 1)
              /\ tasks'[t].cid = ChosenCid(uploaded_files, tasks'[t].op)
              /\ \E k \in RowIdx(log) : UploadRow(log[k], tasks'[t].cid)]_vars

\* a download is in flight
C1_Witness == \E t \in Tasks : tasks[t].pc = "downloading"

\* C2: the shared list is empty until the tasks run, every step leaves the
\* old list a prefix of the new one, the list grows by one element exactly
\* in the steps in which an upload task completes with an identifier, and
\* the end of a download or of a failed upload leaves it unchanged.
C2_AppendOnly ==
    /\ [](run = "scheduling" => uploaded_files = <<>>)
    /\ [][/\ IsPrefix(uploaded_files, uploaded_files')
          /\ Len(uploaded_files') <= Len(uploaded_files) + 1
          /\ (Len(uploaded_files') = Len(uploaded_files) + 1) <=>
                 (\E t \in Tasks : tasks[t].pc = "uploaded" /\ tasks'[t].pc = "done")
          /\ \A t \in Tasks :
                 (/\ tasks[t].pc \in {"uploading", "downloading"}
                  /\ tasks'[t].pc \in {"done", "failed"})
                     => uploaded_files' = uploaded_files]_vars

\* one upload was appended, and another operation has failed with a row
C2_Witness ==
    /\ Len(uploaded_files) = 1
    /\ \E k \in RowIdx(log) : ~log[k].success

\* C3: once run_simulation has handed control back, every scheduled task
\* has finished its operation.
C3_JoinBarrier ==
    run \in {"returned", "raised"} =>
        \A t \in Tasks : tasks[t].pc \in {"done", "failed"}

\* C4: every operation whose storage call has ended, in whatever way, has
\* exactly one row in the workload log.
C4_OneRowPerOperation ==
    Len(Rows(log)) =
        Cardinality({t \in Tasks : tasks[t].pc \in {"uploaded", "done", "failed"}})

\* C5: a task picks among the n+1 slots 0..n where n is the length of the
\* shared list, and only slot n is an upload.
C5_OneUploadSlot ==
    [][\A t \in Tasks :
          Selects(t) =>
              /\ tasks'[t].op \in 0 .. Len(uploaded_files)
              /\ tasks'[t].pc = "uploading" => tasks'[t].op = Len(uploaded_files)]_vars

\* C6: a task that picks its operation while the shared list is empty picks
\* an upload, and in the log every download row comes after a successful
\* upload row.
C6_EmptyForcesUpload ==
    /\ [][\A t \in Tasks :
             (Selects(t) /\ uploaded_files = <<>>) => tasks'[t].pc = "uploading"]_vars
    /\ [](\A k \in RowIdx(log) :
             log[k].action = "download" =>
                 \E h \in 2 .. (k - 1) : log[h].action = "upload" /\ log[h].success)

\* the only task of a run with K = 1 is uploading
C6_Witness == K = 1 /\ created = 1 /\ tasks[1].pc = "uploading"

\* C7: a run with K = 0 creates no task, issues no storage call, writes no
\* row after the header, never raises, and gather returns at once.
C7_NoOperations ==
    K = 0 =>
        /\ created = 0
        /\ tasks = <<>>
        /\ storageCalls = 0
        /\ log = <<Header>>
        /\ run \in {"scheduling", "gathering", "returned"}
        /\ run = "gathering" => ENABLED GatherReturn

\* the run with K = 0 has returned
C7_Witness == K = 0 /\ run = "returned"

\* C8: a row with success false has a duration of at least the timeout, the
\* cid "error" if it is an upload and the file size 0 if it is a download;
\* a row with success true does not have the cid "error".
C8_FailedRows ==
    \A k \in RowIdx(log) :
        /\ ~log[k].success =>
              /\ log[k].duration >= Timeout
              /\ log[k].action = "upload" => log[k].cid = "error"
              /\ log[k].action = "download" => log[k].file_size = 0
        /\ log[k].success => log[k].cid # "error"

\* a download has timed out
C8_Witness ==
    \E k \in RowIdx(log) : log[k].action = "download" /\ ~log[k].success

(***************************************************************************)
(* Properties of the topology constructors                                 *)
(***************************************************************************)
\* the set of pairs attempted so far
AttemptedEdges == {Edge(attempts[k]) : k \in 1 .. Len(attempts)}

\* no pair was attempted twice
NoRepeatedAttempt == Cardinality(AttemptedEdges) = Len(attempts)

\* some attempt has failed and a later one was still made
FailureThenAttempt ==
    \E k \in 1 .. (Len(attempts) - 1) : ~attempts[k].ok

\* the attempts of a ring are, in order, (k, (k+1) mod N) for k = 0, 1, ...
RingOrder ==
    \A k \in 1 .. Len(attempts) :
        Edge(attempts[k]) = <<k - 1, k % num_nodes>>

\* no attempt connects a node to itself
NoSelfLoop == \A k \in 1 .. Len(attempts) : attempts[k].source # attempts[k].target

\* C9 as stated: a ring makes N attempts, the k-th being (k, (k+1) mod N),
\* whatever the results, and none of them is a self-loop, for every N >= 1.
C9_RingNoSelfLoopAnyN ==
    (topology = "ring" /\ num_nodes >= 1) =>
        /\ Len(attempts) = i
        /\ RingOrder
        /\ tpc = "constructed" => Len(attempts) = num_nodes
        /\ NoSelfLoop

\* C9, amended: a ring makes N attempts, the k-th being (k, (k+1) mod N),
\* whatever the results; none is a self-loop when N >= 2, and for N = 1 the
\* single attempt is the self-loop (0, 0).
C9_Ring ==
    topology = "ring" =>
        /\ Len(attempts) = i
        /\ RingOrder
        /\ tpc = "constructed" => Len(attempts) = num_nodes
        /\ num_nodes >= 2 => NoSelfLoop
        /\ (num_nodes = 1 /\ tpc = "constructed") => Edge(attempts[1]) = <<0, 0>>

\* a ring of at least three nodes is complete although an attempt failed
C9_Witness ==
    /\ topology = "ring"
    /\ num_nodes >= 3
    /\ tpc = "constructed"
    /\ FailureThenAttempt

\* the edges of the S x S lattice: (c, c+1) inside a row, (c, c+S) downwards
LatticeEdges(size) ==
    {<<c, c + 1>> : c \in {d \in 0 .. (size * size - 1) : d % size < size - 1}}
    \cup {<<c, c + size>> : c \in {d \in 0 .. (size * size - 1) : d \div size < size - 1}}

\* C10: a grid over N = S*S nodes attempts only lattice edges, none twice,
\* each with source < target and none from the end of a row to the start of
\* the next, whatever the results; when it is complete it has attempted all
\* of them, 2*S*(S-1) attempts.
C10_Grid ==
    (topology = "grid" /\ GridSize * GridSize = num_nodes) =>
        /\ AttemptedEdges \subseteq LatticeEdges(GridSize)
        /\ NoRepeatedAttempt
        /\ \A k \in 1 .. Len(attempts) :
              /\ attempts[k].source < attempts[k].target
              /\ ~(/\ attempts[k].source % GridSize = GridSize - 1
                   /\ attempts[k].target = attempts[k].source + 1)
        /\ tpc = "constructed" =>
              /\ AttemptedEdges = LatticeEdges(GridSize)
              /\ Len(attempts) = 2 * GridSize * (GridSize - 1)

\* a 3 x 3 grid is complete although an attempt failed
C10_Witness ==
    /\ topology = "grid"
    /\ num_nodes = 9
    /\ tpc = "constructed"
    /\ FailureThenAttempt

\* the number of attempts made from node c
OutDegree(c) == Cardinality({k \in 1 .. Len(attempts) : attempts[k].source = c})

\* the nodes of the S x S lattice that lie on its boundary
Boundary(size) ==
    {c \in 0 .. (size * size - 1) :
        \/ c % size \in {0, size - 1}
        \/ c \div size \in {0, size - 1}}

\* C11 as stated: in the complete 3 x 3 grid every interior node has made 2
\* attempts, every boundary node but the bottom-right corner has made 1,
\* and the bottom-right corner has made none.
C11_GridBoundaryDegree ==
    (topology = "grid" /\ num_nodes = 9 /\ tpc = "constructed") =>
        \A c \in 0 .. 8 :
            OutDegree(c) = IF c = 8 THEN 0
                           ELSE IF c \in Boundary(3) THEN 1 ELSE 2

\* C11, amended: in the complete 3 x 3 grid a node outside the last row and
\* the last column (0, 1, 3, 4) has made 2 attempts, a node of the last row
\* or the last column other than the bottom-right corner (2, 5, 6, 7) has
\* made 1, and the bottom-right corner (8) has made none.
C11_GridOutDegree ==
    (topology = "grid" /\ num_nodes = 9 /\ tpc = "constructed") =>
        /\ \A c \in {0, 1, 3, 4} : OutDegree(c) = 2
        /\ \A c \in {2, 5, 6, 7} : OutDegree(c) = 1
        /\ OutDegree(8) = 0

\* the 3 x 3 grid is complete and the top-left corner has made two attempts
C11_Witness ==
    /\ topology = "grid"
    /\ num_nodes = 9
    /\ tpc = "constructed"
    /\ OutDegree(0) = 2

\* the unordered pairs of n nodes, each as (a, b) with a < b
Pairs(n) == {e \in (0 .. (n - 1)) \X (0 .. (n - 1)) : e[1] < e[2]}

\* C12: a full mesh attempts only pairs (a, b) with a < b, so no self-loop,
\* and none twice, whatever the results; when it is complete it has
\* attempted every unordered pair once, N*(N-1)/2 attempts.
C12_FullMesh ==
    topology = "full" =>
        /\ AttemptedEdges \subseteq Pairs(num_nodes)
        /\ NoRepeatedAttempt
        /\ tpc = "constructed" =>
              /\ AttemptedEdges = Pairs(num_nodes)
              /\ 2 * Len(attempts) = num_nodes * (num_nodes - 1)

\* a full mesh of at least three nodes is complete although an attempt failed
C12_Witness ==
    /\ topology = "full"
    /\ num_nodes >= 3
    /\ tpc = "constructed"
    /\ FailureThenAttempt

(***************************************************************************)
(* Properties of the command-line tool                                     *)
(***************************************************************************)
\* the arguments name a constructor whose configuration check fails
InvalidConfiguration ==
    \/ topology = "grid" /\ GridSize * GridSize # num_nodes
    \/ topology = "barabasi" /\ (m < 1 \/ m >= num_nodes)

\* the rows of the execution log below its header
Entries(file) == SubSeq(file, 2, Len(file))

\* C13: a run whose grid has a non-square N, or whose preferential
\* attachment has m outside 1 <= m < N, makes no connect attempt and no
\* request at all, never reaches the verifier, and ends by propagating the
\* error after writing one entry, with status failed and the kind and
\* message of the error as details.
C13_ConfigurationErrors ==
    (InvalidConfiguration /\ ~matrix_flag) =>
        /\ tpc \in {"main", "start", "raised", "propagated"}
        /\ attempts = <<>>
        /\ lastCalls = <<>>
        /\ matrix = <<>>
        /\ tpc \in {"start", "raised"} => tlog = <<TopologyHeader>>
        /\ tpc = "propagated" =>
              /\ Len(Entries(tlog)) = 1
              /\ tlog[2].action = "error"
              /\ tlog[2].status = "failed"
              /\ tlog[2].details = RaisedError

\* a grid over a non-square number of nodes has ended with the error
C13_Witness ==
    /\ topology = "grid"
    /\ num_nodes = 2
    /\ ~matrix_flag
    /\ tpc = "propagated"

\* the actions of the entries log_execution writes for a run
ExecutionActions ==
    {"matrix_read", "topology_ring", "topology_grid", "topology_full",
     "topology_barabasi", "invalid_args", "error"}

\* the rows of the execution log that record a connect attempt
EdgeRows(file) ==
    {k \in 2 .. Len(file) : file[k].action \notin ExecutionActions}

\* C14: during the first run on a fresh log, the log has one row for each
\* connect attempt made so far, whatever its result.
C14_AttemptsLogged ==
    runs = 1 => Cardinality(EdgeRows(tlog)) = Len(attempts)

\* C15: a first run on a fresh log that has ended has written exactly one
\* entry; its status is completed or failed, and it is completed only if
\* the run got through the verifier and returned.
C15_OneEntryPerRun ==
    (runs = 1 /\ tpc \in {"exit", "propagated"}) =>
        /\ Len(Entries(tlog)) = 1
        /\ tlog[2].status \in {"completed", "failed"}
        /\ tlog[2].status = "completed" =>
              (tpc = "exit" /\ DOMAIN matrix = 0 .. (num_nodes - 1))
        /\ tpc = "propagated" => tlog[2].status = "failed"

\* C16: the execution log starts with its header row once it exists, no
\* step removes or alters a row of it, and a step adds at most one row.
C16_AppendOnlyLog ==
    /\ [](tlog # <<>> =>
             /\ tlog[1] = TopologyHeader
             /\ \A k \in 2 .. Len(tlog) : "status" \in DOMAIN tlog[k])
    /\ [][tlog # <<>> =>
             /\ IsPrefix(tlog, tlog')
             /\ Len(tlog') <= Len(tlog) + 1]_vars

\* C17: after a pass of the verifier the matrix is N x N, and an entry
\* (a, b) is 1 only if node a answered the peer query and has a session with
\* the kad stream whose peer identity is present and is the identity node b
\* reported; nothing is set when either identity is unavailable.
C17_MatrixEntries ==
    tpc = "verified" =>
        /\ DOMAIN matrix = 0 .. (num_nodes - 1)
        /\ \A a \in 0 .. (num_nodes - 1) :
              /\ DOMAIN matrix[a] = 0 .. (num_nodes - 1)
              /\ \A b \in 0 .. (num_nodes - 1) :
                    matrix[a][b] = 1 =>
                        /\ peers[a].reply = "ok"
                        /\ ids[b] # NoIdentity
                        /\ \E s \in peers[a].Peers :
                              s.kad /\ s.Peer # NoIdentity /\ s.Peer = ids[b]

\* the requests of a list of calls are all peer listings or identity fetches
OnlyReads(calls) == \A k \in 1 .. Len(calls) : calls[k].call \in {"peers", "id"}

\* C18: a step of the verifier leaves the sessions and identities of the
\* cluster as they are, makes no connect attempt and issues only peer
\* listings and identity fetches; and a pass of a matrix-only run that
\* follows a run with a pass yields the matrix of that earlier pass.
C18_VerifierIdempotent ==
    /\ [][tpc = "verifying" =>
             /\ peers' = peers
             /\ ids' = ids
             /\ attempts' = attempts
             /\ lastCalls' # lastCalls => OnlyReads(lastCalls')]_vars
    /\ []((runs > 1 /\ tpc = "verified" /\ prevMatrix # <<>>) => matrix = prevMatrix)

\* a second pass has found an edge, as the pass of the run before it did
C18_Witness ==
    /\ runs = 2
    /\ tpc = "verified"
    /\ prevMatrix # <<>>
    /\ \E a \in 0 .. (num_nodes - 1), b \in 0 .. (num_nodes - 1) : matrix[a][b] = 1

\* C19: a run with --matrix, with or without a topology kind, makes no
\* connect attempt and calls no constructor, ends after one pass of the
\* verifier with a matrix_read entry of status completed as the last row,
\* and none of its steps removes or alters a row the log already had.
C19_MatrixOnly ==
    /\ [](matrix_flag =>
             /\ attempts = <<>>
             /\ tpc \in {"main", "verify", "verifying", "verified", "exit"}
             /\ tpc = "exit" =>
                   /\ tlog[Len(tlog)].action = "matrix_read"
                   /\ tlog[Len(tlog)].status = "completed")
    /\ [][matrix_flag => IsPrefix(tlog, tlog')]_vars

\* C20: the targets selected for a new node are pairwise distinct, so no
\* pair is attempted twice; and when m is at least the size of the connected
\* set, every member of the set is among them.
C20_DistinctTargets ==
    (topology = "barabasi" /\ tpc = "connecting") =>
        /\ \A a \in 1 .. Len(selected), b \in 1 .. Len(selected) :
              a # b => selected[a] # selected[b]
        /\ NoRepeatedAttempt
        /\ (j = 0 /\ m >= Cardinality(connected)) =>
              {selected[a] : a \in 1 .. Len(selected)} = connected

(***************************************************************************)
(* Properties of preferential attachment                                   *)
(***************************************************************************)
\* some attempt made from node k has succeeded
HasConnected(k) ==
    \E h \in 1 .. Len(attempts) : attempts[h].source = k /\ attempts[h].ok

\* the connected set as it stood before the turn of node k, told from the
\* attempts made: node 0 and the earlier nodes with a successful attempt
ConnectedBefore(k) == {0} \cup {n \in 1 .. (k - 1) : HasConnected(n)}

\* C21: in a preferential attachment every attempt has its target below its
\* source, and its target is node 0 or a node with an earlier successful
\* attempt of its own; during the turn of node k the targets selected are
\* min(m, size of the connected set before the turn) members of that set,
\* and a node whose turn is over has made exactly that many attempts.
C21_AttachAttempts ==
    topology = "barabasi" =>
        /\ \A h \in 1 .. Len(attempts) :
              /\ attempts[h].target < attempts[h].source
              /\ \/ attempts[h].target = 0
                 \/ \E g \in 1 .. (h - 1) :
                       /\ attempts[g].source = attempts[h].target
                       /\ attempts[g].ok
        /\ tpc = "connecting" =>
              /\ Len(selected) = Min(m, Cardinality(ConnectedBefore(i)))
              /\ \A h \in 1 .. Len(selected) : selected[h] \in ConnectedBefore(i)
              /\ OutDegree(i) = j
        /\ \A k \in 1 .. (num_nodes - 1) :
              (tpc = "constructed" \/ (tpc \in {"loop", "connecting"} /\ k < i)) =>
                  /\ OutDegree(k) = Min(m, Cardinality(ConnectedBefore(k)))
                  /\ OutDegree(k) <= m

\* the construction is complete; node 1 never connected and made the one
\* attempt the connected set allowed, as did node 2 after it
C21_Witness ==
    /\ topology = "barabasi"
    /\ tpc = "constructed"
    /\ m = 2
    /\ num_nodes = 3
    /\ ~HasConnected(1)
    /\ OutDegree(2) = 1

\* the construction has passed its configuration check
Attaching == topology = "barabasi" /\ tpc \in {"loop", "connecting", "constructed"}

\* C22: while a preferential attachment runs, node 0 is in the connected
\* set, no step removes a member, and a node k >= 1 is a member exactly when
\* an attempt made from k has succeeded; after a failed attempt the next
\* selected target is still attempted and the next node still gets its
\* turn, so in the end every node k >= 1 has made an attempt.
C22_ConnectedSet ==
    /\ [](Attaching =>
             /\ 0 \in connected
             /\ \A k \in 1 .. (num_nodes - 1) : k \in connected <=> HasConnected(k)
             /\ (tpc = "connecting" /\ j < Len(selected)) => ENABLED BarabasiConnect
             /\ (tpc = "connecting" /\ j = Len(selected)) => ENABLED BarabasiNextNode
             /\ (tpc = "loop" /\ i < num_nodes) => ENABLED BarabasiSelect
             /\ tpc = "constructed" =>
                   \A k \in 1 .. (num_nodes - 1) : OutDegree(k) >= 1)
    /\ [][Attaching => connected \subseteq connected']_vars

\* the construction is complete: the attempt of node 1 failed, and node 2
\* was still attempted and joined the connected set
C22_Witness ==
    /\ topology = "barabasi"
    /\ tpc = "constructed"
    /\ num_nodes = 3
    /\ 1 \notin connected
    /\ 2 \in connected

(***************************************************************************)
(* Properties of connect_nodes                                             *)
(***************************************************************************)
\* the three requests of an attempt, in the order of the claim
SubSteps(a) ==
    <<[call |-> "resolve", node |-> a.target],
      [call |-> "id", node |-> a.target],
      [call |-> "connect", node |-> a.source, peer |-> a.target]>>

\* C23: the requests of a call of connect_nodes are a non-empty initial
\* part of: resolve the target's address, fetch the target's identity, issue
\* the connect request at the source, so each is made at most once and in
\* that order; the call returns success only after all three were made, so
\* a call that ends after the resolution or the identity fetch returns
\* failure without a connect request; and the constructor that made the call
\* goes on, no error having been raised.
C23_ConnectSubSteps ==
    [][Len(attempts') > Len(attempts) =>
          /\ Len(lastCalls') \in 1 .. 3
          /\ lastCalls' = SubSeq(SubSteps(attempts'[Len(attempts')]), 1, Len(lastCalls'))
          /\ attempts'[Len(attempts')].ok => Len(lastCalls') = 3
          /\ Len(lastCalls') < 3 => ~attempts'[Len(attempts')].ok
          /\ tpc' = tpc
          /\ tpc' # "raised"]_vars

\* the latest call ended after the identity fetch, without a connect request
C23_Witness ==
    /\ Len(attempts) >= 1
    /\ Len(lastCalls) = 2
    /\ lastCalls[2].call = "id"
    /\ ~attempts[Len(attempts)].ok

(***************************************************************************)
(* Properties of the identity resolution of the verifier                   *)
(***************************************************************************)
\* the entries set in row a of the matrix
RowEntries(a) == {b \in 0 .. (num_nodes - 1) : matrix[a][b] = 1}

\* C24: after a pass of the verifier a row has at most one entry for each
\* peer of the node with the kad stream, and an entry is set only at the
\* lowest index among the nodes that report its identity.
C24_FirstMatchWins ==
    tpc = "verified" =>
        \A a \in 0 .. (num_nodes - 1) :
            /\ Cardinality(RowEntries(a)) <= Cardinality(KadPeers(a))
            /\ \A b \in RowEntries(a) :
                  \A c \in 0 .. (b - 1) : GetNodeId(c) # GetNodeId(b)

(***************************************************************************)
(* Properties of the operation choice of the workload generator            *)
(***************************************************************************)
\* the delay of task t has elapsed and it is about to pick its operation
Ready(t) == run = "gathering" /\ tasks[t].pc = "sleeping" /\ OffsetElapsed(t)

\* task t picks, with the draw op, an operation of the given kind
Picks(t, op, kind) ==
    RunOperation(t) /\ tasks'[t].op = op /\ tasks'[t].pc = kind

\* C25: a task that is about to pick its operation decides from the shared
\* list as it stands then: the draw 0 gives an upload exactly when the list
\* is empty and a download, of the first identifier of the list, exactly
\* when it is not; no draw gives a download outside the list or an upload
\* inside it.  The first task always finds the list empty, so its operation
\* is an upload in every run.  For a later task both orders are possible
\* while an upload is in flight: it can pick now, and the upload can
\* complete and publish its identifier first.
C25_DecidedAtExecution ==
    \A t \in Tasks :
        Ready(t) =>
            /\ (ENABLED Picks(t, 0, "uploading")) <=> uploaded_files = <<>>
            /\ (ENABLED Picks(t, 0, "downloading")) <=> uploaded_files # <<>>
            /\ ~ENABLED (RunOperation(t) /\ tasks'[t].pc = "downloading"
                         /\ tasks'[t].op >= Len(uploaded_files))
            /\ ~ENABLED (RunOperation(t) /\ tasks'[t].pc = "uploading"
                         /\ tasks'[t].op < Len(uploaded_files))
            /\ ~ENABLED (RunOperation(t) /\ tasks'[t].pc = "downloading"
                         /\ tasks'[t].cid # uploaded_files[tasks'[t].op + 1])
            /\ t = 1 => uploaded_files = <<>>
            /\ \A u \in Tasks :
                  /\ tasks[u].pc = "uploading" => ENABLED UploadRespond(u)
                  /\ tasks[u].pc = "uploaded" => ENABLED UploadAppend(u)

\* the second task is about to pick its operation while the upload of the
\* first is in flight and the shared list is still empty
C25_Witness ==
    /\ created = 2
    /\ Ready(2)
    /\ tasks[1].pc = "uploading"
    /\ uploaded_files = <<>>

====
